---- MODULE Spec2Model ----
(***************************************************************************)
(* A model of the non-framework logic of django-fluent-contents:           *)
(*   - BaseContentItemFormSet (admin/contentitems.py): linking a form row  *)
(*     to its placeholder and language while saving, and the field order   *)
(*     of the forms;                                                       *)
(*   - ContentItemTree.from_list, ImmutableMedia, ContentItemOutput and    *)
(*     PlaceholderData                                                     *)
(*     (models/__init__.py);                                               *)
(*   - PolymorphicParentInlineModelAdmin (polymorphic/admin/inlines.py).   *)
(* Each part has a specification of its own (SpecFormSet, SpecTree,        *)
(* SpecMedia, SpecOutput, SpecInline, SpecPlaceholderData, SpecFormClass); *)
(* the variables of the other parts stay at their idle values.             *)
(*                                                                         *)
(* Python values: None is the string "None"; a string is falsy when it is  *)
(* None or empty.  Objects are named by strings (a placeholder "p1", a     *)
(* parent page "page1"), their attributes are looked up in tables.         *)
(***************************************************************************)
EXTENDS Integers, Sequences, FiniteSets, TLC

None == "None"

\* Python truthiness of an optional string.
Falsy(x) == x = None \/ x = ""

VARIABLES
    \* ---- BaseContentItemFormSet ----
    fs_instance,            \* self.instance: the parent object of the formset, or None
    current_language,       \* self.current_language
    deleted_placeholders,   \* self._deleted_placeholders
    placeholders_by_slot,   \* self._placeholders_by_slot: slot -> placeholder (None: no key)
    db_placeholders,        \* the Placeholder rows in the database
    form,                   \* the form being saved: cleaned_data and instance
    fs_pc,                  \* where formset.save() is: "start", "saving" (between forms), "form"
    db_rows,                \* the rows written by instance.save() in the last operation
    m2m_saved,              \* what form.save_m2m() did: None, or whether the row existed
    calls,                  \* the calls made by the last save_new / save_existing
    returned,               \* what the last operation returned or raised
    last_call,              \* the last operation, its arguments and the state it started in
    \* ---- ContentItemTree.from_list ----
    tree_items,             \* the items argument
    tree_top_parent_id,     \* the top_parent_id argument
    tree_context,           \* the placeholder and parent_item arguments
    tree_result,            \* the tree returned or the exception raised, and the _set_children calls
    tree_pc,                \* "call" before from_list runs, "done" after
    \* ---- ImmutableMedia ----
    media_self,             \* an ImmutableMedia object
    media_before,           \* media_self before the last operation
    media_arg,              \* the argument of the last operation
    media_result,           \* the media object the last operation returned
    media_raised,           \* the exception the last operation raised, or None
    media_op,               \* the last operation, None before it
    \* ---- PolymorphicParentInlineModelAdmin ----
    inline_self,            \* the parent inline object
    child_inlines,          \* self.child_inlines: the child inline classes
    child_inline_instances, \* self.child_inline_instances
    child_inlines_lookup,   \* self._child_inlines_lookup: model -> child inline
    base_media,             \* the media of the inline itself (super().media)
    inline_op,              \* the last operation, None before it
    inline_arg,             \* the model asked for
    inline_result,          \* what get_child_inline_instance returned or raised
    inline_media,           \* what the media property returned
    \* ---- PlaceholderData ----
    ALLOWED_ROLES,          \* _ALLOWED_ROLES: the keys of Placeholder.ROLES
    pd_args,                \* the arguments of the construction
    pd,                     \* the object constructed, or the exception raised
    pd_pc,                  \* "call" before the construction, "done" after
    \* ---- ContentItemOutput ----
    out_media,              \* self.media of the output
    out_media_before,       \* self.media before the last operation
    out_arg,                \* the media argument of the last operation, as it was passed
    out_arg_after,          \* the same argument object after the operation
    out_op,                 \* the last operation, None before it
    \* ---- BaseContentItemFormSet.get_form_class ----
    ci_base_fields,         \* ContentItemForm.base_fields: its field names in order
    fc_form,                \* base_fields of the automatically generated form
    fc_form_after,          \* base_fields of the form after get_form_class
    fc_raised,              \* the exception get_form_class raised, or None
    fc_pc                   \* "call" before get_form_class runs, "done" after

fsVars == <<fs_instance, current_language, deleted_placeholders, placeholders_by_slot,
            db_placeholders, form, fs_pc, db_rows, m2m_saved, calls, returned, last_call>>

treeVars == <<tree_items, tree_top_parent_id, tree_context, tree_result, tree_pc>>

mediaVars == <<media_self, media_before, media_arg, media_result, media_raised, media_op>>

inlineVars == <<inline_self, child_inlines, child_inline_instances, child_inlines_lookup,
                base_media, inline_op, inline_arg, inline_result, inline_media>>

pdVars == <<ALLOWED_ROLES, pd_args, pd, pd_pc>>

outVars == <<out_media, out_media_before, out_arg, out_arg_after, out_op>>

fcVars == <<ci_base_fields, fc_form, fc_form_after, fc_raised, fc_pc>>

vars == <<fsVars, treeVars, mediaVars, inlineVars, pdVars, outVars, fcVars>>

\* The variables of the other parts, which an action of one part leaves alone.
notFsVars == <<treeVars, mediaVars, inlineVars, pdVars, outVars, fcVars>>
notTreeVars == <<fsVars, mediaVars, inlineVars, pdVars, outVars, fcVars>>
notMediaVars == <<fsVars, treeVars, inlineVars, pdVars, outVars, fcVars>>
notInlineVars == <<fsVars, treeVars, mediaVars, pdVars, outVars, fcVars>>
notPdVars == <<fsVars, treeVars, mediaVars, inlineVars, outVars, fcVars>>
notOutVars == <<fsVars, treeVars, mediaVars, inlineVars, pdVars, fcVars>>
notFcVars == <<fsVars, treeVars, mediaVars, inlineVars, pdVars, outVars>>

(***************************************************************************)
(* BaseContentItemFormSet                                                  *)
(***************************************************************************)

\* The placeholder objects that exist or existed, with their slot and parent.
PlaceholderObjs == {"p1", "p2", "p3"}

PSlot == [p \in PlaceholderObjs |->
            CASE p = "p1" -> "main"
              [] p = "p2" -> "sidebar"
              [] OTHER    -> "main"]

PParent == [p \in PlaceholderObjs |->
            CASE p = "p3" -> "page2"
              [] OTHER    -> "page1"]

Slots == {"main", "sidebar"}
ParentObjs == {"page1", "page2"}

\* appsettings.FLUENT_CONTENTS_DEFAULT_LANGUAGE_CODE
FLUENT_CONTENTS_DEFAULT_LANGUAGE_CODE == "en"

\* get_parent_language_code(instance): the language of the parent object,
\* None for a parent that has no language.
get_parent_language_code(parent) == IF parent = "page1" THEN "nl" ELSE None

\* BaseContentItemFormSet.__init__: the language of the formset.
FormSetLanguage(instance) ==
    IF instance # None
    THEN get_parent_language_code(instance)
    ELSE FLUENT_CONTENTS_DEFAULT_LANGUAGE_CODE

\* Placeholder.objects.parent(parent).get(slot=slot): the one matching row,
\* or the exception QuerySet.get() raises.
QueryPlaceholder(parent, slot) ==
    LET found == {p \in db_placeholders : PParent[p] = parent /\ PSlot[p] = slot}
    IN  IF found = {} THEN "DoesNotExist"
        ELSE IF Cardinality(found) > 1 THEN "MultipleObjectsReturned"
        ELSE CHOOSE p \in found : TRUE

Exceptions == {"DoesNotExist", "MultipleObjectsReturned", "KeyError", "ValueError",
               "RuntimeError"}

\* The local state a save runs on: the form, the cache, the written row,
\* the calls made so far and the exception raised (None: still running).
SaveState(f) ==
    [form |-> f, cache |-> placeholders_by_slot, rows |-> <<>>, m2m |-> None,
     calls |-> <<>>, raised |-> None]

\* _set_placeholder_id(form) without the orphaning branch.
SetPlaceholderIdNoOrphan(st) ==
    LET f == st.form
        form_slot == f.cleaned_data.placeholder_slot
        form_placeholder == f.cleaned_data.placeholder
        logged == [st EXCEPT !.calls = Append(@, "_set_placeholder_id")]
    IN  IF Falsy(form_slot) THEN logged
        ELSE IF form_placeholder = None \/ PSlot[form_placeholder] # form_slot
        THEN LET cached == st.cache[form_slot]
                 desired == IF cached # None THEN cached
                            ELSE QueryPlaceholder(fs_instance, form_slot)
             IN  IF desired \in Exceptions
                 THEN [logged EXCEPT !.raised = desired]
                 ELSE [logged EXCEPT
                         !.cache = [@ EXCEPT ![form_slot] = desired],
                         !.form.cleaned_data.placeholder = desired,
                         !.form.instance.placeholder = desired]
        ELSE logged

\* _set_placeholder_id(form) that keeps the selected placeholder when one is given.
SetPlaceholderIdKeepSelected(st) ==
    LET f == st.form
        form_slot == f.cleaned_data.placeholder_slot
        form_placeholder == f.cleaned_data.placeholder
        logged == [st EXCEPT !.calls = Append(@, "_set_placeholder_id")]
    IN  IF Falsy(form_slot) THEN logged
        ELSE IF form_placeholder = None
        THEN LET cached == st.cache[form_slot]
                 desired == IF cached # None THEN cached
                            ELSE QueryPlaceholder(fs_instance, form_slot)
             IN  IF desired \in Exceptions
                 THEN [logged EXCEPT !.raised = desired]
                 ELSE [logged EXCEPT
                         !.cache = [@ EXCEPT ![form_slot] = desired],
                         !.form.cleaned_data.placeholder = desired,
                         !.form.instance.placeholder = desired]
        ELSE IF f.instance.placeholder \in deleted_placeholders
        THEN [logged EXCEPT
                !.form.cleaned_data.placeholder = None,
                !.form.instance.placeholder = None]
        ELSE logged

\* BaseContentItemFormSet._set_placeholder_id(form)
SetPlaceholderId(st) ==
    LET f == st.form
        form_slot == f.cleaned_data.placeholder_slot
        form_placeholder == f.cleaned_data.placeholder
        logged == [st EXCEPT !.calls = Append(@, "_set_placeholder_id")]
    IN  IF Falsy(form_slot) THEN logged
        ELSE IF form_placeholder = None \/ PSlot[form_placeholder] # form_slot
        THEN \* try: self._placeholders_by_slot[form_slot]  except KeyError: query, store
             LET cached == st.cache[form_slot]
                 desired == IF cached # None THEN cached
                            ELSE QueryPlaceholder(fs_instance, form_slot)
             IN  IF desired \in Exceptions
                 THEN [logged EXCEPT !.raised = desired]
                 ELSE [logged EXCEPT
                         !.cache = [@ EXCEPT ![form_slot] = desired],
                         !.form.cleaned_data.placeholder = desired,
                         !.form.instance.placeholder = desired]
        ELSE IF f.instance.placeholder \in deleted_placeholders
        THEN \* ContentItem was in a deleted placeholder, and gets orphaned.
             [logged EXCEPT
                !.form.cleaned_data.placeholder = None,
                !.form.instance.placeholder = None]
        ELSE logged

\* super().save_new(form, commit=False): the generic inline formset links the
\* instance to the parent object and returns form.save(commit=False), which is
\* form.instance (the instance was built from cleaned_data when the form was cleaned).
SuperSaveNew(st) ==
    [st EXCEPT !.form.instance.parent = fs_instance,
               !.calls = Append(@, "super.save_new")]

\* instance.language_code = self.current_language
SetLanguageCode(st) ==
    [st EXCEPT !.form.instance.language_code = current_language,
               !.calls = Append(@, "language_code=")]

\* instance.save(): writes the instance as it is now.
InstanceSave(st) ==
    [st EXCEPT !.rows = Append(@, st.form.instance),
               !.calls = Append(@, "instance.save")]

\* form.save_m2m(): stores the relations of the row; records whether the row existed.
FormSaveM2M(st) ==
    [st EXCEPT !.m2m = IF st.rows # <<>> THEN "saved" ELSE "no row",
               !.calls = Append(@, "form.save_m2m")]

\* One statement of a save method.
Step(name, st) ==
    CASE name = "_set_placeholder_id" -> SetPlaceholderId(st)
      [] name = "super.save_new"      -> SuperSaveNew(st)
      [] name = "language_code="      -> SetLanguageCode(st)
      [] name = "instance.save"       -> InstanceSave(st)
      [] name = "form.save_m2m"       -> FormSaveM2M(st)

\* The statements run in order; an exception ends the run.
RECURSIVE RunSteps(_, _)
RunSteps(steps, st) ==
    IF steps = <<>> \/ st.raised # None THEN st
    ELSE RunSteps(Tail(steps), Step(Head(steps), st))

\* save_new that saves the instance before it sets the language code.
SaveNewStepsSaveFirst(commit) ==
    <<"_set_placeholder_id", "super.save_new">>
    \o (IF commit THEN <<"instance.save", "form.save_m2m">> ELSE <<>>)
    \o <<"language_code=">>

\* BaseContentItemFormSet.save_new(form, commit): its statements in order.
SaveNewSteps(commit) ==
    <<"_set_placeholder_id", "super.save_new", "language_code=">>
    \o (IF commit THEN <<"instance.save", "form.save_m2m">> ELSE <<>>)

\* BaseContentItemFormSet.save_existing(form, instance, commit): its statements;
\* form.save(commit) saves the instance and the relations when commit is set.
SaveExistingSteps(commit) ==
    IF commit
    THEN <<"_set_placeholder_id", "instance.save", "form.save_m2m">>
    ELSE <<>>

\* The forms a formset can hold after cleaning: the selected placeholder, the
\* slot typed in, and the instance built from them.
Forms ==
    [cleaned_data : [placeholder : PlaceholderObjs \cup {None},
                     placeholder_slot : Slots \cup {""}],
     instance : [placeholder : PlaceholderObjs \cup {None},
                 language_code : {None},
                 parent : {None}]]

NoForm ==
    [cleaned_data |-> [placeholder |-> None, placeholder_slot |-> ""],
     instance |-> [placeholder |-> None, language_code |-> None, parent |-> None]]

NoCall == [op |-> None, commit |-> FALSE, form |-> NoForm, cache |-> [s \in Slots |-> None]]

\* BaseContentItemFormSet.__init__(instance=...), for some database content.
FormSetInit ==
    /\ fs_instance \in ParentObjs \cup {None}
    /\ current_language = FormSetLanguage(fs_instance)
    /\ deleted_placeholders = {}
    /\ placeholders_by_slot = [s \in Slots |-> None]
    /\ db_placeholders \in SUBSET PlaceholderObjs
    /\ form = NoForm
    /\ fs_pc = "start"
    /\ db_rows = <<>>
    /\ m2m_saved = None
    /\ calls = <<>>
    /\ returned = None
    /\ last_call = NoCall

\* PlaceholderEditorAdmin sets formset._deleted_placeholders to the ids of the
\* placeholders it deleted (they are no longer in the database), before the
\* formset is saved.
SetDeletedPlaceholders ==
    /\ fs_pc = "start"
    /\ \E ids \in SUBSET (PlaceholderObjs \ db_placeholders) :
          deleted_placeholders' = ids
    /\ fs_pc' = "saving"
    /\ UNCHANGED <<fs_instance, current_language, placeholders_by_slot, db_placeholders,
                   form, db_rows, m2m_saved, calls, returned, last_call>>
    /\ UNCHANGED notFsVars

\* formset.save() comes to the next form: its cleaned data and its instance.
NextForm ==
    /\ fs_pc = "saving"
    /\ \E f \in Forms : form' = f
    /\ fs_pc' = "form"
    /\ db_rows' = <<>>
    /\ m2m_saved' = None
    /\ calls' = <<>>
    /\ returned' = None
    /\ last_call' = NoCall
    /\ UNCHANGED <<fs_instance, current_language, deleted_placeholders,
                   placeholders_by_slot, db_placeholders>>
    /\ UNCHANGED notFsVars

\* The effect of running a save method on the current form.
Save(op, commit, steps) ==
    LET st == RunSteps(steps, SaveState(form))
    IN  /\ fs_pc = "form"
        /\ fs_pc' = "saving"
        /\ form' = st.form
        /\ placeholders_by_slot' = st.cache
        /\ db_rows' = st.rows
        /\ m2m_saved' = st.m2m
        /\ calls' = st.calls
        /\ returned' = IF st.raised # None THEN st.raised ELSE "instance"
        /\ last_call' = [op |-> op, commit |-> commit, form |-> form,
                         cache |-> placeholders_by_slot]
        /\ UNCHANGED <<fs_instance, current_language, deleted_placeholders, db_placeholders>>
        /\ UNCHANGED notFsVars

\* formset.save_new(form, commit)
SaveNew ==
    \E commit \in BOOLEAN : Save("save_new", commit, SaveNewSteps(commit))

\* formset.save_existing(form, instance, commit)
SaveExisting ==
    \E commit \in BOOLEAN : Save("save_existing", commit, SaveExistingSteps(commit))

FormSetNext == SetDeletedPlaceholders \/ NextForm \/ SaveNew \/ SaveExisting

\* ---- claims about BaseContentItemFormSet ----

\* The last operation ran _set_placeholder_id and returned normally.
PlaceholderIdWasSet ==
    /\ \/ last_call.op = "save_new"
       \/ last_call.op = "save_existing" /\ last_call.commit
    /\ returned = "instance"

\* The form of the last operation had a slot, and no placeholder of that slot selected.
SlotNeedsPlaceholder ==
    LET cd == last_call.form.cleaned_data
    IN  /\ ~Falsy(cd.placeholder_slot)
        /\ \/ cd.placeholder = None
           \/ PSlot[cd.placeholder] # cd.placeholder_slot

\* The form of the last operation had a slot, and a placeholder of that slot selected.
SlotAlreadySelected ==
    LET cd == last_call.form.cleaned_data
    IN  /\ ~Falsy(cd.placeholder_slot)
        /\ cd.placeholder # None
        /\ PSlot[cd.placeholder] = cd.placeholder_slot

\* C1: after save_new (any commit) or save_existing(commit=True), a form whose
\* slot is given and whose selected placeholder is absent or of another slot has
\* cleaned_data['placeholder'] and instance.placeholder both set to the parent
\* object's placeholder of that slot.
C1_SlotOverwritesPlaceholder ==
    (PlaceholderIdWasSet /\ SlotNeedsPlaceholder) =>
        LET p == form.cleaned_data.placeholder
        IN  /\ p \in db_placeholders
            /\ PParent[p] = fs_instance
            /\ PSlot[p] = last_call.form.cleaned_data.placeholder_slot
            /\ form.instance.placeholder = p

\* C1 witness: a placeholder of another slot was selected and has been replaced,
\* once by a query and once from the cache.
C1_Witness ==
    /\ PlaceholderIdWasSet /\ SlotNeedsPlaceholder
    /\ last_call.form.cleaned_data.placeholder # None
    /\ last_call.cache[last_call.form.cleaned_data.placeholder_slot] # None
    /\ form.cleaned_data.placeholder # last_call.form.cleaned_data.placeholder
    /\ form.instance.placeholder = form.cleaned_data.placeholder

IndexOf(seq, x) == CHOOSE i \in 1..Len(seq) : seq[i] = x

Called(x) == \E i \in 1..Len(calls) : calls[i] = x

\* C9: the instance save_new returns has the formset's current_language (the
\* parent's language, or the default without a parent); with commit the language
\* is set before instance.save(), which runs before form.save_m2m(); without
\* commit neither is called.
C9_SaveNewLanguage ==
    (last_call.op = "save_new" /\ returned = "instance") =>
        /\ current_language = (IF fs_instance # None
                               THEN get_parent_language_code(fs_instance)
                               ELSE FLUENT_CONTENTS_DEFAULT_LANGUAGE_CODE)
        /\ form.instance.language_code = current_language
        /\ last_call.commit =>
              /\ db_rows = <<form.instance>>
              /\ db_rows[1].language_code = current_language
              /\ m2m_saved = "saved"
              /\ IndexOf(calls, "language_code=") < IndexOf(calls, "instance.save")
              /\ IndexOf(calls, "instance.save") < IndexOf(calls, "form.save_m2m")
        /\ ~last_call.commit =>
              /\ db_rows = <<>>
              /\ m2m_saved = None
              /\ ~Called("instance.save")
              /\ ~Called("form.save_m2m")

\* C9 witness: a committed save_new under a parent that has a language.
C9_Witness ==
    /\ last_call.op = "save_new" /\ returned = "instance" /\ last_call.commit
    /\ fs_instance # None
    /\ current_language = "nl"
    /\ last_call.form.instance.language_code # current_language
    /\ Len(db_rows) = 1

\* C10: a form saved with a slot whose selected placeholder already has that slot
\* is orphaned exactly when instance.placeholder_id is in _deleted_placeholders,
\* and is left as it was otherwise; with an empty slot, or with
\* save_existing(commit=False), the placeholder is not altered.
C10_OrphanedWhenDeleted ==
    LET before == last_call.form
        kept == /\ form.cleaned_data.placeholder = before.cleaned_data.placeholder
                /\ form.instance.placeholder = before.instance.placeholder
        orphaned == /\ form.cleaned_data.placeholder = None
                    /\ form.instance.placeholder = None
    IN  /\ (PlaceholderIdWasSet /\ SlotAlreadySelected) =>
              IF before.instance.placeholder \in deleted_placeholders
              THEN orphaned
              ELSE kept
        /\ (PlaceholderIdWasSet /\ Falsy(before.cleaned_data.placeholder_slot)) => kept
        /\ (last_call.op = "save_existing" /\ ~last_call.commit) => kept

\* C10 witness: an item of a deleted placeholder has been orphaned.
C10_Witness ==
    /\ PlaceholderIdWasSet /\ SlotAlreadySelected
    /\ last_call.form.instance.placeholder \in deleted_placeholders
    /\ last_call.form.cleaned_data.placeholder # None
    /\ form.cleaned_data.placeholder = None
    /\ form.instance.placeholder = None

(***************************************************************************)
(* ContentItemTree.from_list                                               *)
(***************************************************************************)

\* The longest input list.
MaxItems == 3

\* The sort_order values: two, so that items tie and items differ.
SortOrders == {0, 1}

\* The item at position k of the input has the k-th id: from_list uses ids only
\* as dictionary keys, so which distinct ids the items carry does not matter.
\* One more id names an item that is not in the list.
ItemIdNames == <<"i1", "i2", "i3", "i4", "i5", "i6">>

ItemIds == {ItemIdNames[k] : k \in 1..(MaxItems + 1)}

ItemFields == [parent_item_id : ItemIds \cup {None}, sort_order : SortOrders]

MakeItems(fields) ==
    [k \in 1..Len(fields) |->
        [id |-> ItemIdNames[k],
         parent_item_id |-> fields[k].parent_item_id,
         sort_order |-> fields[k].sort_order]]

\* The input lists of n items.
ItemLists(n) == {MakeItems(f) : f \in [1..n -> ItemFields]}

\* ContentItemTree(items, flat_items, placeholder, parent_item).  flat_items is a
\* list or None: has_flat_items tells which.
ContentItemTree(items, has_flat, flat_items, placeholder, parent_item) ==
    [elements |-> items, has_flat_items |-> has_flat, flat_items |-> flat_items,
     placeholder |-> placeholder, parent_item |-> parent_item]

NoTree == ContentItemTree(<<>>, FALSE, <<>>, None, None)

\* The keys of the OrderedDict `parents`: the parent ids in order of first appearance.
RECURSIVE ParentKeys(_, _)
ParentKeys(items, seen) ==
    IF items = <<>> THEN <<>>
    ELSE LET k == Head(items).parent_item_id
         IN  IF k \in seen THEN ParentKeys(Tail(items), seen)
             ELSE <<k>> \o ParentKeys(Tail(items), seen \cup {k})

\* parents[parent_id]: the items with that parent, in input order.
ChildrenOf(items, parent_id) ==
    SelectSeq(items, LAMBDA it : it.parent_item_id = parent_id)

\* lookup: the ids that are keys, and lookup[id] (the last item with that id).
LookupKeys(items) == {items[k].id : k \in 1..Len(items)}

Lookup(items, id) ==
    items[CHOOSE k \in 1..Len(items) :
            /\ items[k].id = id
            /\ \A j \in (k + 1)..Len(items) : items[j].id # id]

\* list.sort(key=lambda item: item.sort_order): a stable sort, here by inserting
\* each item after the items that do not sort after it.
RECURSIVE SortBySortOrder(_)
SortBySortOrder(list) ==
    IF list = <<>> THEN <<>>
    ELSE LET rest == SortBySortOrder(SubSeq(list, 1, Len(list) - 1))
             x == list[Len(list)]
             before == SelectSeq(rest, LAMBDA it : it.sort_order <= x.sort_order)
             after == SelectSeq(rest, LAMBDA it : it.sort_order > x.sort_order)
         IN  before \o <<x>> \o after

\* The loop over parents (lines 198-205): the _set_children calls made so far,
\* ended by the KeyError of lookup[parent_id] for a parent that is not in the list.
RECURSIVE SetChildrenLoop(_, _, _, _, _)
SetChildrenLoop(keys, items, top_parent_id, placeholder, done) ==
    IF keys = <<>> THEN [raised |-> None, set_children |-> done]
    ELSE LET parent_id == Head(keys)
         IN  IF parent_id # None /\ parent_id # top_parent_id
             THEN IF parent_id \notin LookupKeys(items)
                  THEN [raised |-> "KeyError", set_children |-> done]
                  ELSE LET sub_parent_item == Lookup(items, parent_id)
                           children == SortBySortOrder(ChildrenOf(items, parent_id))
                           call == [item |-> sub_parent_item,
                                    children |-> ContentItemTree(children, FALSE, <<>>,
                                                     placeholder, sub_parent_item.id)]
                       IN  SetChildrenLoop(Tail(keys), items, top_parent_id, placeholder,
                                           Append(done, call))
             ELSE SetChildrenLoop(Tail(keys), items, top_parent_id, placeholder, done)

\* ContentItemTree.from_list(items, top_parent_id, placeholder, parent_item):
\* the tree returned or the exception raised, and the _set_children calls made.
FromList(items, top_parent_id, placeholder, parent_item) ==
    IF items = <<>>
    THEN [raised |-> None, set_children |-> <<>>,
          tree |-> ContentItemTree(<<>>, FALSE, <<>>, placeholder, parent_item)]
    ELSE LET keys == ParentKeys(items, {})
             loop == SetChildrenLoop(keys, items, top_parent_id, placeholder, <<>>)
             has_roots == \E k \in 1..Len(keys) : keys[k] = top_parent_id
             root_items == SortBySortOrder(ChildrenOf(items, top_parent_id))
         IN  IF loop.raised # None
             THEN [raised |-> loop.raised, set_children |-> loop.set_children,
                   tree |-> NoTree]
             ELSE IF ~has_roots
             THEN \* root_items = parents[top_parent_id]
                  [raised |-> "KeyError", set_children |-> loop.set_children,
                   tree |-> NoTree]
             ELSE [raised |-> None, set_children |-> loop.set_children,
                   tree |-> ContentItemTree(root_items, TRUE, items, placeholder,
                                            parent_item)]

NoTreeResult == [raised |-> None, set_children |-> <<>>, tree |-> NoTree]

\* The arguments of a call of from_list.
TreeInit ==
    /\ \E n \in 0..MaxItems : tree_items \in ItemLists(n)
    /\ tree_top_parent_id \in ItemIds \cup {None}
    /\ tree_context \in {[placeholder |-> None, parent_item |-> None],
                         [placeholder |-> "p1", parent_item |-> "container"]}
    /\ tree_result = NoTreeResult
    /\ tree_pc = "call"

\* ContentItemTree.from_list(items, top_parent_id, placeholder, parent_item)
FromListCall ==
    /\ tree_pc = "call"
    /\ tree_result' = FromList(tree_items, tree_top_parent_id,
                               tree_context.placeholder, tree_context.parent_item)
    /\ tree_pc' = "done"
    /\ UNCHANGED <<tree_items, tree_top_parent_id, tree_context>>
    /\ UNCHANGED notTreeVars

TreeNext == FromListCall

\* ---- claims about ContentItemTree.from_list ----

\* The position of an item in the input list (ids are distinct).
InputPos(it) == CHOOSE k \in 1..Len(tree_items) : tree_items[k].id = it.id

\* list holds exactly the input items whose parent is parent_id, in non-decreasing
\* sort_order, items of equal sort_order in input order.
IsSortedChildren(list, parent_id) ==
    /\ \A k \in 1..Len(list) :
          /\ \E j \in 1..Len(tree_items) : tree_items[j] = list[k]
          /\ list[k].parent_item_id = parent_id
    /\ \A j \in 1..Len(tree_items) :
          tree_items[j].parent_item_id = parent_id =>
              Cardinality({k \in 1..Len(list) : list[k] = tree_items[j]}) = 1
    /\ \A k \in 1..(Len(list) - 1) :
          \/ list[k].sort_order < list[k + 1].sort_order
          \/ /\ list[k].sort_order = list[k + 1].sort_order
             /\ InputPos(list[k]) < InputPos(list[k + 1])

\* C2: from_list on a non-empty list returns a tree of exactly the items whose
\* parent_item_id is top_parent_id, stably sorted by sort_order, with flat_items
\* the input list; on an empty list it returns an empty tree with the given
\* placeholder and parent_item.
C2_FromListReturnsRoots ==
    tree_pc = "done" =>
        /\ tree_result.raised = None
        /\ tree_result.tree.placeholder = tree_context.placeholder
        /\ tree_result.tree.parent_item = tree_context.parent_item
        /\ IF tree_items = <<>>
           THEN tree_result.tree.elements = <<>>
           ELSE /\ IsSortedChildren(tree_result.tree.elements, tree_top_parent_id)
                /\ tree_result.tree.has_flat_items
                /\ tree_result.tree.flat_items = tree_items

\* The _set_children calls received by the item with this id.
SetChildrenCallsOn(id) ==
    SelectSeq(tree_result.set_children, LAMBDA c : c.item.id = id)

\* The ids of the input items that are the parent of an input item, other than
\* the top parent.
SubParents ==
    {tree_items[k].id : k \in 1..Len(tree_items)} \cap
    ({tree_items[k].parent_item_id : k \in 1..Len(tree_items)} \ {None, tree_top_parent_id})

\* C3: every input item that is the parent of an input item (a parent id that is
\* neither None nor top_parent_id) receives exactly one _set_children call, with
\* a tree of exactly its children in non-decreasing sort_order, its parent_item
\* that item and its placeholder the one passed to from_list.
C3_SetChildrenOncePerParent ==
    tree_pc = "done" =>
        \A id \in SubParents :
            LET got == SetChildrenCallsOn(id)
            IN  /\ Len(got) = 1
                /\ IsSortedChildren(got[1].children.elements, id)
                /\ got[1].children.parent_item = id
                /\ got[1].children.placeholder = tree_context.placeholder

\* Every parent_item_id of the input is None, top_parent_id or the id of an
\* item of the input.
ParentsResolve ==
    \A k \in 1..Len(tree_items) :
        tree_items[k].parent_item_id \in
            {None, tree_top_parent_id} \cup {tree_items[j].id : j \in 1..Len(tree_items)}

\* The places of an item among the root elements of the returned tree.
RootPlaces(it) ==
    {k \in 1..Len(tree_result.tree.elements) : tree_result.tree.elements[k] = it}

\* The places of an item in the children set on the other input items.
ChildPlaces(it) ==
    {p \in (1..Len(tree_result.set_children)) \X (1..Len(tree_items)) :
        LET call == tree_result.set_children[p[1]]
        IN  /\ call.item.id # it.id
            /\ p[2] <= Len(call.children.elements)
            /\ call.children.elements[p[2]] = it}

\* C13: for every non-empty input list in which each parent_item_id is None,
\* top_parent_id or the id of an item of the list, and every top_parent_id,
\* from_list returns a tree in which every input item appears exactly once:
\* as a root element or in the children set on exactly one other input item.
C13_EveryItemOnce ==
    (tree_pc = "done" /\ tree_items # <<>> /\ ParentsResolve) =>
        /\ tree_result.raised = None
        /\ \A k \in 1..Len(tree_items) :
              Cardinality(RootPlaces(tree_items[k]))
                + Cardinality(ChildPlaces(tree_items[k])) = 1

(***************************************************************************)
(* django.forms.Media and ImmutableMedia                                   *)
(***************************************************************************)

\* The most entries (css and js paths together) of one media object.
MaxEntries == 2

Mediums == {"all", "print"}
CssPaths == {"a.css", "b.css"}
JsPaths == {"a.js", "b.js"}

\* Lists without repeated entries, as add_css and add_js build them.
ListsOf(S) ==
    {l \in UNION {[1..n -> S] : n \in 0..Cardinality(S)} :
        \A i, j \in 1..Len(l) : l[i] = l[j] => i = j}

\* A _css dictionary: medium -> non-empty list of paths.
CssDicts == UNION {[d -> ListsOf(CssPaths) \ {<<>>}] : d \in SUBSET Mediums}

RECURSIVE SumLen(_, _)
SumLen(css, keys) ==
    IF keys = {} THEN 0
    ELSE LET k == CHOOSE x \in keys : TRUE
         IN  Len(css[k]) + SumLen(css, keys \ {k})

Entries(css, js) == SumLen(css, DOMAIN css) + Len(js)

InList(x, l) == \E i \in 1..Len(l) : l[i] = x

\* for path in paths: if path not in list: list.append(path)
RECURSIVE AppendNew(_, _)
AppendNew(list, paths) ==
    IF paths = <<>> THEN list
    ELSE AppendNew(IF InList(Head(paths), list) THEN list ELSE Append(list, Head(paths)),
                   Tail(paths))

\* Media.add_js(data) on the list _js; data is a list (empty for None).
MediaAddJs(js, data) == AppendNew(js, data)

\* Media.add_css(data) on the dictionary _css; data is a dictionary (empty for
\* None): a medium gets a key when its first path is appended.
MediaAddCss(css, data) ==
    LET touched == {m \in DOMAIN data : data[m] # <<>>}
    IN  [m \in (DOMAIN css) \cup touched |->
            AppendNew(IF m \in DOMAIN css THEN css[m] ELSE <<>>,
                      IF m \in DOMAIN data THEN data[m] ELSE <<>>)]

\* A media object: its class, whether it is the shared ImmutableMedia.empty_instance,
\* and its _css and _js.
MediaObject(cls, is_empty_instance, css, js) ==
    [cls |-> cls, is_empty_instance |-> is_empty_instance, css |-> css, js |-> js]

EmptyCss == [m \in {} |-> <<>>]

\* Media(): a new, empty media object.
NewMedia == MediaObject("Media", FALSE, EmptyCss, <<>>)

\* ImmutableMedia.empty_instance = ImmutableMedia()
empty_instance == MediaObject("ImmutableMedia", TRUE, EmptyCss, <<>>)

\* ImmutableMedia(css=..., js=...): a new object filled by Media.add_css / add_js.
ImmutableMediaInit(css, js) ==
    MediaObject("ImmutableMedia", FALSE, MediaAddCss(EmptyCss, css), MediaAddJs(<<>>, js))

\* Media(css=..., js=...)
MediaInit(css, js) ==
    MediaObject("Media", FALSE, MediaAddCss(EmptyCss, css), MediaAddJs(<<>>, js))

\* The css and js a media object is built from, within the bound.
MediaData ==
    {d \in [css : CssDicts, js : ListsOf(JsPaths)] : Entries(d.css, d.js) <= MaxEntries}

\* The ImmutableMedia objects: the shared empty instance and constructed ones.
ImmutableMediaObjects ==
    {empty_instance} \cup {ImmutableMediaInit(d.css, d.js) : d \in MediaData}

\* Any media object: a Media or an ImmutableMedia.
MediaObjects ==
    ImmutableMediaObjects \cup {MediaInit(d.css, d.js) : d \in MediaData}

\* Media.__add__(self, other): a new Media with the entries of both.
MediaAdd(self, other) ==
    MediaObject("Media", FALSE,
                MediaAddCss(MediaAddCss(EmptyCss, self.css), other.css),
                MediaAddJs(MediaAddJs(<<>>, self.js), other.js))

\* ImmutableMedia.__add__(self, other)
ImmutableMediaAdd(self, other) ==
    IF other.is_empty_instance
    THEN other
    ELSE MediaObject("Media", FALSE, other.css, other.js)

\* add_css that behaves as Media.add_css does.
ImmutableAddCssMutable(self, data) ==
    [self |-> [self EXCEPT !.css = MediaAddCss(self.css, data)], raised |-> None]

\* ImmutableMedia.add_css(data): the object afterwards and the exception raised.
ImmutableAddCss(self, data) ==
    [self |-> self, raised |-> "RuntimeError"]

\* ImmutableMedia.add_js(data): the object afterwards and the exception raised.
ImmutableAddJs(self, data) ==
    [self |-> self, raised |-> "RuntimeError"]

\* An ImmutableMedia object, before any operation on it.
MediaObjectsInit ==
    /\ media_self \in ImmutableMediaObjects
    /\ media_before = media_self
    /\ media_arg = NewMedia
    /\ media_result = NewMedia
    /\ media_raised = None
    /\ media_op = None

\* media_self + other, for any media object other
ImmutableMediaAddCall ==
    /\ media_op = None
    /\ \E other \in MediaObjects :
          /\ media_arg' = other
          /\ media_result' = ImmutableMediaAdd(media_self, other)
    /\ media_op' = "__add__"
    /\ media_before' = media_self
    /\ UNCHANGED <<media_self, media_raised>>
    /\ UNCHANGED notMediaVars

\* media_self.add_css(data)
ImmutableAddCssCall ==
    /\ media_op = None
    /\ \E d \in MediaData :
          LET r == ImmutableAddCss(media_self, d.css)
          IN  /\ media_arg' = MediaInit(d.css, d.js)
              /\ media_self' = r.self
              /\ media_raised' = r.raised
    /\ media_op' = "add_css"
    /\ media_before' = media_self
    /\ UNCHANGED media_result
    /\ UNCHANGED notMediaVars

\* media_self.add_js(data)
ImmutableAddJsCall ==
    /\ media_op = None
    /\ \E d \in MediaData :
          LET r == ImmutableAddJs(media_self, d.js)
          IN  /\ media_arg' = MediaInit(d.css, d.js)
              /\ media_self' = r.self
              /\ media_raised' = r.raised
    /\ media_op' = "add_js"
    /\ media_before' = media_self
    /\ UNCHANGED media_result
    /\ UNCHANGED notMediaVars

MediaNext == ImmutableMediaAddCall \/ ImmutableAddCssCall \/ ImmutableAddJsCall

\* ---- claims about ImmutableMedia ----

\* Every css and js entry of media object m is an entry of media object r.
ContainsEntries(r, m) ==
    /\ \A medium \in DOMAIN m.css :
          \A i \in 1..Len(m.css[medium]) :
              /\ medium \in DOMAIN r.css
              /\ InList(m.css[medium][i], r.css[medium])
    /\ \A i \in 1..Len(m.js) : InList(m.js[i], r.js)

\* C4: a + b, for an ImmutableMedia a and any media object b, is a media object
\* whose css and js contain every entry of a and every entry of b.
C4_AddMergesBoth ==
    media_op = "__add__" =>
        /\ ContainsEntries(media_result, media_self)
        /\ ContainsEntries(media_result, media_arg)

\* C5: add_css and add_js of an ImmutableMedia raise RuntimeError for every
\* argument and leave _css and _js as they were.
C5_AddCssJsRaise ==
    media_op \in {"add_css", "add_js"} =>
        /\ media_raised = "RuntimeError"
        /\ media_self.css = media_before.css
        /\ media_self.js = media_before.js

\* C5 witness: add_css was called with an entry the object does not hold.
C5_Witness ==
    /\ media_op = "add_css"
    /\ media_raised = "RuntimeError"
    /\ media_arg.css # EmptyCss
    /\ ~ContainsEntries(media_self, media_arg)
    /\ media_self.css = media_before.css

(***************************************************************************)
(* ContentItemOutput                                                       *)
(***************************************************************************)

\* ContentItemOutput.__init__: self.media = media or ImmutableMedia.empty_instance
\* (a media object is always truthy; has_media is FALSE for media=None).
ContentItemOutputMedia(has_media, media) ==
    IF has_media THEN media ELSE empty_instance

\* a + b for media objects: the __add__ of the class of a.
Add(a, b) ==
    IF a.cls = "ImmutableMedia" THEN ImmutableMediaAdd(a, b) ELSE MediaAdd(a, b)

\* ContentItemOutput._insert_media(media): self.media afterwards, and the
\* argument object afterwards (both additions build a new object and write
\* to no operand).
InsertMedia(self_media, media) ==
    IF self_media.is_empty_instance
    THEN [media |-> Add(NewMedia, media), arg |-> media]
    ELSE [media |-> Add(media, self_media), arg |-> media]

\* An output as constructed, before any operation on it.
OutputInit ==
    /\ \E has_media \in BOOLEAN, m \in MediaObjects :
          out_media = ContentItemOutputMedia(has_media, m)
    /\ out_media_before = out_media
    /\ out_arg = NewMedia
    /\ out_arg_after = NewMedia
    /\ out_op = None

\* output._insert_media(m), for any media object m
InsertMediaCall ==
    /\ out_op = None
    /\ \E m \in MediaObjects :
          LET r == InsertMedia(out_media, m)
          IN  /\ out_arg' = m
              /\ out_media' = r.media
              /\ out_arg_after' = r.arg
    /\ out_media_before' = out_media
    /\ out_op' = "_insert_media"
    /\ UNCHANGED notOutVars

OutputNext == InsertMediaCall

\* ---- claims about ContentItemOutput ----

\* C11: after _insert_media(m), for any media object m, the output's media
\* contains every css and js entry of m and every entry the output's media held
\* before the call, and the object m itself is not modified.
C11_InsertMediaKeepsAll ==
    out_op = "_insert_media" =>
        /\ ContainsEntries(out_media, out_arg)
        /\ ContainsEntries(out_media, out_media_before)
        /\ out_arg_after = out_arg

(***************************************************************************)
(* PolymorphicParentInlineModelAdmin                                       *)
(***************************************************************************)

\* The most child inlines of a parent inline.
MaxChildInlines == 2

ChildModels == {"TextItem", "GistItem", "OtherItem"}

\* The media an inline (the parent's base media, a child's media) can have.
InlineMediaChoices ==
    {MediaInit(EmptyCss, <<>>),
     MediaInit(EmptyCss, <<"a.js">>),
     MediaInit(EmptyCss, <<"a.js", "b.js">>),
     MediaInit([m \in {"all"} |-> <<"a.css">>], <<"b.js">>)}

\* A child inline class: its model and the media its instances have.
ChildInlineTypes == [model : ChildModels, media : InlineMediaChoices]

\* The parent inline objects.
ParentInlines == {"inline1", "inline2"}

\* PolymorphicChildInlineModelAdmin.__init__(parent_inline), of a child inline class
ChildInlineInit(ChildInlineType, parent_inline) ==
    [model |-> ChildInlineType.model, media |-> ChildInlineType.media,
     parent_inline |-> parent_inline]

NoChildInline == [model |-> None, media |-> NewMedia, parent_inline |-> None]

\* get_child_inline_instances(): one instance per class of child_inlines, in order.
GetChildInlineInstances(self, types) ==
    [k \in 1..Len(types) |-> ChildInlineInit(types[k], self)]

\* __init__: the lookup table model -> child inline; a later inline of the same
\* model replaces an earlier one.
ChildInlinesLookup(instances) ==
    [model \in {instances[k].model : k \in 1..Len(instances)} |->
        instances[CHOOSE k \in 1..Len(instances) :
                    /\ instances[k].model = model
                    /\ \A j \in (k + 1)..Len(instances) : instances[j].model # model]]

\* get_child_inline_instance that falls back on the first child inline.
GetChildInlineInstanceFallback(lookup, instances, model) ==
    IF model \in DOMAIN lookup
    THEN [raised |-> None, instance |-> lookup[model]]
    ELSE IF instances # <<>>
    THEN [raised |-> None, instance |-> instances[1]]
    ELSE [raised |-> "ValueError", instance |-> NoChildInline]

\* get_child_inline_instance(model)
GetChildInlineInstance(lookup, instances, model) ==
    IF model \in DOMAIN lookup
    THEN [raised |-> None, instance |-> lookup[model]]
    ELSE [raised |-> "ValueError", instance |-> NoChildInline]

\* add_media(dest, media): adds the css and the js of media to dest.
add_media(dest, media) ==
    [dest EXCEPT !.css = MediaAddCss(dest.css, media.css),
                 !.js = MediaAddJs(dest.js, media.js)]

\* The loop of the media property over the child inline instances.
RECURSIVE AddChildMedia(_, _, _)
AddChildMedia(all_media, base, instances) ==
    IF instances = <<>> THEN all_media
    ELSE LET child_media == Head(instances).media
         IN  AddChildMedia(
                 IF child_media.css # base.css /\ child_media.js # base.js
                 THEN add_media(all_media, child_media)
                 ELSE all_media,
                 base, Tail(instances))

\* PolymorphicParentInlineModelAdmin.media, for the base media super().media
ParentInlineMedia(base, instances) ==
    AddChildMedia(add_media(NewMedia, base), base, instances)

NoInlineResult == [raised |-> None, instance |-> NoChildInline]

\* PolymorphicParentInlineModelAdmin.__init__, for some child_inlines and base media.
InlineInit ==
    /\ inline_self \in ParentInlines
    /\ child_inlines \in UNION {[1..n -> ChildInlineTypes] : n \in 0..MaxChildInlines}
    /\ child_inline_instances = GetChildInlineInstances(inline_self, child_inlines)
    /\ child_inlines_lookup = ChildInlinesLookup(child_inline_instances)
    /\ base_media \in InlineMediaChoices
    /\ inline_op = None
    /\ inline_arg = None
    /\ inline_result = NoInlineResult
    /\ inline_media = NewMedia

\* self.get_child_inline_instance(model)
GetChildInlineInstanceCall ==
    /\ inline_op = None
    /\ \E model \in ChildModels :
          /\ inline_arg' = model
          /\ inline_result' = GetChildInlineInstance(child_inlines_lookup,
                                                     child_inline_instances, model)
    /\ inline_op' = "get_child_inline_instance"
    /\ UNCHANGED <<inline_self, child_inlines, child_inline_instances,
                   child_inlines_lookup, base_media, inline_media>>
    /\ UNCHANGED notInlineVars

\* self.media
ParentInlineMediaCall ==
    /\ inline_op = None
    /\ inline_media' = ParentInlineMedia(base_media, child_inline_instances)
    /\ inline_op' = "media"
    /\ UNCHANGED <<inline_self, child_inlines, child_inline_instances,
                   child_inlines_lookup, base_media, inline_arg, inline_result>>
    /\ UNCHANGED notInlineVars

InlineNext == GetChildInlineInstanceCall \/ ParentInlineMediaCall

\* ---- claims about PolymorphicParentInlineModelAdmin ----

\* C6: the media of the parent inline contains the entries of its base media and
\* every css and js entry of the media of every child inline instance.
C6_MediaHasAllChildMedia ==
    inline_op = "media" =>
        /\ ContainsEntries(inline_media, base_media)
        /\ \A k \in 1..Len(child_inline_instances) :
              ContainsEntries(inline_media, child_inline_instances[k].media)

\* C7: get_child_inline_instance(model) returns, for the model of an inline of
\* child_inlines, a child inline of that model whose parent_inline is this
\* parent inline, and raises ValueError for every other model.
C7_GetChildInlineInstance ==
    inline_op = "get_child_inline_instance" =>
        IF \E k \in 1..Len(child_inlines) : child_inlines[k].model = inline_arg
        THEN /\ inline_result.raised = None
             /\ inline_result.instance.model = inline_arg
             /\ inline_result.instance.parent_inline = inline_self
        ELSE inline_result.raised = "ValueError"

\* C7 witness: the model of the second of two child inlines of different models
\* was asked for.
C7_Witness ==
    /\ inline_op = "get_child_inline_instance"
    /\ Len(child_inlines) = 2
    /\ child_inlines[1].model # child_inlines[2].model
    /\ inline_arg = child_inlines[2].model
    /\ inline_result.raised = None
    /\ inline_result.instance.model = inline_arg
    /\ inline_result.instance.parent_inline = inline_self

(***************************************************************************)
(* PlaceholderData                                                         *)
(***************************************************************************)

\* Placeholder.MAIN, Placeholder.SIDEBAR, Placeholder.RELATED: the role keys the
\* aliases stand for.  Their values are set in models/db.py; here each is a
\* token of its own.
MAIN == "Placeholder.MAIN"
SIDEBAR == "Placeholder.SIDEBAR"
RELATED == "Placeholder.RELATED"

\* The keys Placeholder.ROLES may hold: the three roles, and one more.
RoleKeys == {MAIN, SIDEBAR, RELATED, "Placeholder.OTHER"}

\* PlaceholderData.ROLE_ALIASES.get(role, default)
RoleAliasesGet(role, default) ==
    CASE role = "main"    -> MAIN
      [] role = "sidebar" -> SIDEBAR
      [] role = "related" -> RELATED
      [] OTHER            -> default

NoPlaceholderData ==
    [raised |-> None, slot |-> None, title |-> None, role |-> None,
     fallback_language |-> None]

\* PlaceholderData.__init__ that takes the title as given.
PlaceholderDataInitNoTitleDefault(slot, title, role, fallback_language) ==
    IF Falsy(slot)
    THEN [NoPlaceholderData EXCEPT !.raised = "ValueError"]
    ELSE LET self == [raised |-> None,
                      slot |-> slot,
                      title |-> title,
                      role |-> RoleAliasesGet(role, IF Falsy(role) THEN MAIN ELSE role),
                      fallback_language |-> IF Falsy(fallback_language) THEN None
                                            ELSE fallback_language]
         IN  IF self.role \notin ALLOWED_ROLES
             THEN [NoPlaceholderData EXCEPT !.raised = "ValueError"]
             ELSE self

\* PlaceholderData.__init__(slot, title, role, fallback_language): the object
\* constructed, or the exception raised.
PlaceholderDataInit(slot, title, role, fallback_language) ==
    IF Falsy(slot)
    THEN [NoPlaceholderData EXCEPT !.raised = "ValueError"]
    ELSE LET self == [raised |-> None,
                      slot |-> slot,
                      title |-> IF Falsy(title) THEN slot ELSE title,
                      role |-> RoleAliasesGet(role, IF Falsy(role) THEN MAIN ELSE role),
                      fallback_language |-> IF Falsy(fallback_language) THEN None
                                            ELSE fallback_language]
         IN  IF self.role \notin ALLOWED_ROLES
             THEN [NoPlaceholderData EXCEPT !.raised = "ValueError"]
             ELSE self

\* The arguments of a construction.
PlaceholderDataArgs ==
    [slot : {None, "", "main", "sidebar"},
     title : {None, "", "Main content"},
     role : {None, "", "main", "sidebar", "related", "x"} \cup RoleKeys,
     fallback_language : {None, "", "en"}]

\* _ALLOWED_ROLES = list(dict(Placeholder.ROLES).keys()), for any Placeholder.ROLES,
\* and the arguments of a construction.
PdInit ==
    /\ ALLOWED_ROLES \in SUBSET RoleKeys
    /\ pd_args \in PlaceholderDataArgs
    /\ pd = NoPlaceholderData
    /\ pd_pc = "call"

\* PlaceholderData(slot, title, role, fallback_language)
PlaceholderDataCall ==
    /\ pd_pc = "call"
    /\ pd' = PlaceholderDataInit(pd_args.slot, pd_args.title, pd_args.role,
                                 pd_args.fallback_language)
    /\ pd_pc' = "done"
    /\ UNCHANGED <<pd_args, ALLOWED_ROLES>>
    /\ UNCHANGED notPdVars

PdNext == PlaceholderDataCall

\* ---- claims about PlaceholderData ----

\* The role a given role stands for: an alias resolved, MAIN when none is given.
ResolvedRole(role) ==
    IF role = "main" THEN MAIN
    ELSE IF role = "sidebar" THEN SIDEBAR
    ELSE IF role = "related" THEN RELATED
    ELSE IF role = None \/ role = "" THEN MAIN
    ELSE role

\* C8: a PlaceholderData that is constructed has a non-empty slot, a non-empty
\* title (the given title, or the slot when none is given) and an allowed role
\* (aliases resolved, MAIN by default); construction raises ValueError when the
\* slot is empty or the resolved role is not allowed.
C8_PlaceholderDataValid ==
    pd_pc = "done" =>
        IF pd_args.slot \in {None, ""} \/ ResolvedRole(pd_args.role) \notin ALLOWED_ROLES
        THEN pd.raised = "ValueError"
        ELSE /\ pd.raised = None
             /\ pd.slot = pd_args.slot /\ pd.slot \notin {None, ""}
             /\ pd.title \notin {None, ""}
             /\ pd.title = (IF pd_args.title \in {None, ""} THEN pd_args.slot
                            ELSE pd_args.title)
             /\ pd.role = ResolvedRole(pd_args.role)
             /\ pd.role \in ALLOWED_ROLES

\* C8 witness: constructed from an alias and without a title.
C8_Witness ==
    /\ pd_pc = "done"
    /\ pd.raised = None
    /\ ALLOWED_ROLES = {MAIN, SIDEBAR, RELATED}
    /\ pd_args.title = None
    /\ pd_args.role = "sidebar"
    /\ pd.title = pd.slot
    /\ pd.role = SIDEBAR

(***************************************************************************)
(* BaseContentItemFormSet.get_form_class                                   *)
(***************************************************************************)

\* The most fields of one form.
MaxFields == 3

\* The field names of ContentItemForm and of the plugin models.
CommonFieldNames == {"placeholder", "placeholder_slot", "sort_order"}
FieldNames == CommonFieldNames \cup {"title", "url"}

\* The field objects of a form, one per field.
FieldObjects == <<"field1", "field2", "field3", "field4", "field5">>

\* The key orders an ordered dictionary of at most MaxFields fields can have.
KeyOrders(names) == {l \in ListsOf(names) : Len(l) <= MaxFields}

\* base_fields of a form: an ordered dictionary, as the sequence of its
\* (name, field object) items.
BaseFields(keys) == [i \in 1..Len(keys) |-> [name |-> keys[i], field |-> FieldObjects[i]]]

\* base_fields.keys()
Keys(base_fields) == [i \in 1..Len(base_fields) |-> base_fields[i].name]

\* base_fields[k], for a key the dictionary has
GetItem(base_fields, k) ==
    LET i == CHOOSE j \in 1..Len(base_fields) : base_fields[j].name = k
    IN  base_fields[i].field

\* [f for f in form.base_fields.keys() if f not in first_fields]
NotInFirst(keys, first_fields) ==
    LET Keep(f) == ~InList(f, first_fields)
    IN  SelectSeq(keys, Keep)

\* get_form_class that leaves the generated form as it is.
GetFormClassNoReorder(first_fields, base_fields) ==
    [raised |-> None, base_fields |-> base_fields]

\* get_form_class(model), after super().get_form_class(model) returned a form
\* with these base_fields: the exception raised and form.base_fields afterwards.
GetFormClass(first_fields, base_fields) ==
    LET field_order == first_fields \o NotInFirst(Keys(base_fields), first_fields)
    IN  IF \E i \in 1..Len(field_order) : ~InList(field_order[i], Keys(base_fields))
        THEN [raised |-> "KeyError", base_fields |-> base_fields]
        ELSE [raised |-> None,
              base_fields |-> [i \in 1..Len(field_order) |->
                                 [name |-> field_order[i],
                                  field |-> GetItem(base_fields, field_order[i])]]]

\* ContentItemForm and an automatically generated form, before get_form_class.
FormClassInit ==
    /\ ci_base_fields \in KeyOrders(CommonFieldNames)
    /\ \E keys \in KeyOrders(FieldNames) : fc_form = BaseFields(keys)
    /\ fc_form_after = fc_form
    /\ fc_raised = None
    /\ fc_pc = "call"

\* formset.get_form_class(model)
GetFormClassCall ==
    /\ fc_pc = "call"
    /\ LET r == GetFormClass(ci_base_fields, fc_form)
       IN  /\ fc_form_after' = r.base_fields
           /\ fc_raised' = r.raised
    /\ fc_pc' = "done"
    /\ UNCHANGED <<ci_base_fields, fc_form>>
    /\ UNCHANGED notFcVars

FormClassNext == GetFormClassCall

\* ---- claims about get_form_class ----

\* The position of the item named k in base_fields, 0 when it has none.
FieldPos(base_fields, k) ==
    IF \E i \in 1..Len(base_fields) : base_fields[i].name = k
    THEN CHOOSE i \in 1..Len(base_fields) : base_fields[i].name = k
    ELSE 0

\* Every field of ContentItemForm is a field of the generated form.
HasCommonFields ==
    \A i \in 1..Len(ci_base_fields) : FieldPos(fc_form, ci_base_fields[i]) > 0

\* The form get_form_class returned has the items of the generated form, the
\* fields of ContentItemForm first and in its order, the others after them in
\* their original relative order.
ReorderedCommonFirst ==
    /\ fc_raised = None
    /\ Len(fc_form_after) = Len(fc_form)
    /\ {fc_form_after[i] : i \in 1..Len(fc_form_after)}
         = {fc_form[i] : i \in 1..Len(fc_form)}
    /\ \A i \in 1..Len(ci_base_fields) :
          /\ i <= Len(fc_form_after)
          /\ fc_form_after[i].name = ci_base_fields[i]
    /\ \A i, j \in (Len(ci_base_fields) + 1)..Len(fc_form_after) :
          i < j => FieldPos(fc_form, fc_form_after[i].name)
                     < FieldPos(fc_form, fc_form_after[j].name)

\* C12 as stated: get_form_class(model) returns a form whose base_fields has
\* exactly the field names and field objects of the automatically generated
\* form, all fields of ContentItemForm first in ContentItemForm's order, then
\* the remaining fields in their original relative order.
C12_Original ==
    fc_pc = "done" => ReorderedCommonFirst

\* C12: when every field of ContentItemForm is a field of the automatically
\* generated form, get_form_class(model) returns a form whose base_fields has
\* exactly the field names and field objects of the generated form, all fields
\* of ContentItemForm first in ContentItemForm's order, then the remaining
\* fields in their original relative order; when the generated form lacks one
\* of them, get_form_class raises KeyError and the form keeps its base_fields.
C12_FieldsReordered ==
    /\ (fc_pc = "done" /\ HasCommonFields) => ReorderedCommonFirst
    /\ (fc_pc = "done" /\ ~HasCommonFields) =>
          (fc_raised = "KeyError" /\ fc_form_after = fc_form)

\* C12 witness: a generated form whose common fields were not first has been
\* reordered, with a field of the plugin model after them.
C12_Witness ==
    /\ fc_pc = "done" /\ HasCommonFields /\ fc_raised = None
    /\ Len(ci_base_fields) >= 2
    /\ Len(fc_form) > Len(ci_base_fields)
    /\ fc_form_after # fc_form
    /\ fc_form_after[1].field # "field1"

(***************************************************************************)
(* Specifications: one per part; the other parts do not move.              *)
(***************************************************************************)

FormSetIdle ==
    /\ fs_instance = None
    /\ current_language = None
    /\ deleted_placeholders = {}
    /\ placeholders_by_slot = [s \in Slots |-> None]
    /\ db_placeholders = {}
    /\ form = NoForm
    /\ fs_pc = "idle"
    /\ db_rows = <<>>
    /\ m2m_saved = None
    /\ calls = <<>>
    /\ returned = None
    /\ last_call = NoCall

TreeIdle ==
    /\ tree_items = <<>>
    /\ tree_top_parent_id = None
    /\ tree_context = [placeholder |-> None, parent_item |-> None]
    /\ tree_result = NoTreeResult
    /\ tree_pc = "idle"

MediaIdle ==
    /\ media_self = empty_instance
    /\ media_before = empty_instance
    /\ media_arg = NewMedia
    /\ media_result = NewMedia
    /\ media_raised = None
    /\ media_op = "idle"

InlineIdle ==
    /\ inline_self = None
    /\ child_inlines = <<>>
    /\ child_inline_instances = <<>>
    /\ child_inlines_lookup = <<>>
    /\ base_media = NewMedia
    /\ inline_op = "idle"
    /\ inline_arg = None
    /\ inline_result = NoInlineResult
    /\ inline_media = NewMedia

OutputIdle ==
    /\ out_media = empty_instance
    /\ out_media_before = empty_instance
    /\ out_arg = NewMedia
    /\ out_arg_after = NewMedia
    /\ out_op = "idle"

FormClassIdle ==
    /\ ci_base_fields = <<>>
    /\ fc_form = <<>>
    /\ fc_form_after = <<>>
    /\ fc_raised = None
    /\ fc_pc = "idle"

PdIdle ==
    /\ ALLOWED_ROLES = {MAIN, SIDEBAR, RELATED}
    /\ pd_args = [slot |-> None, title |-> None, role |-> None, fallback_language |-> None]
    /\ pd = NoPlaceholderData
    /\ pd_pc = "idle"

FormSetSpecInit ==
    FormSetInit /\ TreeIdle /\ MediaIdle /\ InlineIdle /\ PdIdle /\ OutputIdle /\ FormClassIdle

SpecFormSet == FormSetSpecInit /\ [][FormSetNext]_vars

TreeSpecInit ==
    TreeInit /\ FormSetIdle /\ MediaIdle /\ InlineIdle /\ PdIdle /\ OutputIdle /\ FormClassIdle

SpecTree == TreeSpecInit /\ [][TreeNext]_vars

MediaSpecInit ==
    MediaObjectsInit /\ FormSetIdle /\ TreeIdle /\ InlineIdle /\ PdIdle /\ OutputIdle /\ FormClassIdle

SpecMedia == MediaSpecInit /\ [][MediaNext]_vars

InlineSpecInit ==
    InlineInit /\ FormSetIdle /\ TreeIdle /\ MediaIdle /\ PdIdle /\ OutputIdle /\ FormClassIdle

SpecInline == InlineSpecInit /\ [][InlineNext]_vars

PdSpecInit ==
    PdInit /\ FormSetIdle /\ TreeIdle /\ MediaIdle /\ InlineIdle /\ OutputIdle /\ FormClassIdle

SpecPlaceholderData == PdSpecInit /\ [][PdNext]_vars

OutputSpecInit ==
    OutputInit /\ FormSetIdle /\ TreeIdle /\ MediaIdle /\ InlineIdle /\ PdIdle /\ FormClassIdle

SpecOutput == OutputSpecInit /\ [][OutputNext]_vars

FormClassSpecInit ==
    FormClassInit /\ FormSetIdle /\ TreeIdle /\ MediaIdle /\ InlineIdle /\ PdIdle /\ OutputIdle

SpecFormClass == FormClassSpecInit /\ [][FormClassNext]_vars

====
